---- MODULE Spec2Model ----
(***************************************************************************)
(* Model of the trace aggregation engine of TPU-Profiling                  *)
(* (tools/trace_collection_tools/process_traces.py).                       *)
(*                                                                         *)
(* Strings are sequences of one-character strings, so that lower(),        *)
(* startswith(), split() and the substring test `key in name` are computed *)
(* as the code computes them.  None is the one-element sequence <<"None">>,*)
(* which no string equals (every element of a string is one character).    *)
(*                                                                         *)
(* A duration is an integer number of picoseconds: the value d stands for  *)
(* the float d / PsPerUs microseconds, so that sums are exact.             *)
(***************************************************************************)
EXTENDS Integers, Sequences, FiniteSets, TLC

VARIABLES
    files,                 \* the trace files under ROOT: <<[path, doc]>> in sorted path order
    comm_order,            \* iteration order of the set COMM_KEYS in this process
    pc,                    \* position of main()
    idx,                   \* number of trace files the loop of main() has consumed
    totals_by_comm,        \* ctype -> ((batch, tp) -> <<total, count>>)
    totals_by_model_comm,  \* (model, ctype) -> ((batch, tp) -> <<total, count>>)
    model_comm_order,      \* insertion order of the keys of totals_by_model_comm
    processed_data,        \* <<model, tp, batch, ctype>> -> [total_us, count]
    batches,               \* the set `batches` of main()
    tps,                   \* the set `tps` of main()
    written,               \* output artifacts written so far, in order
    op,                    \* unit call: the function applied ("ready" before the call)
    arg,                   \* unit call: its argument
    ret                    \* unit call: its result

vars == <<files, comm_order, pc, idx, totals_by_comm, totals_by_model_comm,
          model_comm_order, processed_data, batches, tps, written, op, arg, ret>>

mainVars == <<files, comm_order, pc, idx, totals_by_comm, totals_by_model_comm,
              model_comm_order, processed_data, batches, tps, written>>

----------------------------------------------------------------------------
(* Bounds *)

MaxFiles == 2
MaxEvents == 2

----------------------------------------------------------------------------
(* Strings *)

None == <<"None">>
Empty == <<>>

UpperChars == <<"A","B","C","D","E","F","G","H","I","J","K","L","M",
                "N","O","P","Q","R","S","T","U","V","W","X","Y","Z">>
LowerChars == <<"a","b","c","d","e","f","g","h","i","j","k","l","m",
                "n","o","p","q","r","s","t","u","v","w","x","y","z">>

UpperSet == {UpperChars[i] : i \in 1..26}

ToLower == [c \in UpperSet |-> LowerChars[CHOOSE i \in 1..26 : UpperChars[i] = c]]

LowerChar(c) == IF c \in UpperSet THEN ToLower[c] ELSE c

\* str.lower()
Lower(s) == [i \in 1..Len(s) |-> LowerChar(s[i])]

\* str.startswith(prefix)
StartsWith(s, prefix) ==
    /\ Len(prefix) <= Len(s)
    /\ SubSeq(s, 1, Len(prefix)) = prefix

\* `key in name` for strings: key occurs as a contiguous substring
Contains(name, key) ==
    \E i \in 1..(Len(name) - Len(key) + 1) : SubSeq(name, i, i + Len(key) - 1) = key

Range(s) == {s[i] : i \in 1..Len(s)}

Reverse(s) == [i \in 1..Len(s) |-> s[Len(s) + 1 - i]]

Rotate(s, k) == [i \in 1..Len(s) |-> s[((i - 1 + k) % Len(s)) + 1]]

----------------------------------------------------------------------------
(* COMM_KEYS *)

K_all_reduce == <<"a","l","l","-","r","e","d","u","c","e">>
K_all_gather_us == <<"a","l","l","_","g","a","t","h","e","r">>
K_all_gather == <<"a","l","l","-","g","a","t","h","e","r">>
K_all_to_all == <<"a","l","l","-","t","o","-","a","l","l">>
K_reduce_scatter == <<"r","e","d","u","c","e","-","s","c","a","t","t","e","r">>
K_collective_permute == <<"c","o","l","l","e","c","t","i","v","e","-","p","e","r","m","u","t","e">>
K_collective_permute_start == K_collective_permute \o <<"-","s","t","a","r","t">>
K_collective_permute_done == K_collective_permute \o <<"-","d","o","n","e">>
K_send == <<"s","e","n","d">>
K_recv == <<"r","e","c","v">>

\* the labels in the order the source declares them
COMM_KEYS_DECL ==
    << K_all_reduce, K_all_gather_us, K_all_gather, K_all_to_all, K_reduce_scatter,
       K_collective_permute, K_collective_permute_start, K_collective_permute_done,
       K_send, K_recv >>

\* COMM_KEYS is a Python set: membership does not depend on any order
COMM_KEYS == Range(COMM_KEYS_DECL)

\* Iterating a set of str follows the hash values of the labels, which are
\* randomised per process: one run may see any order.  The model draws the
\* order of a run from this family of permutations.
SetOrders ==
    { COMM_KEYS_DECL, Reverse(COMM_KEYS_DECL), Rotate(COMM_KEYS_DECL, 6) }

\* the orders drawn for a whole run of main()
RunOrders == { COMM_KEYS_DECL, Reverse(COMM_KEYS_DECL) }

S_unknown == <<"u","n","k","n","o","w","n">>
S_unknown_model == <<"u","n","k","n","o","w","n","_","m","o","d","e","l">>

----------------------------------------------------------------------------
(* Events.  An item of an event collection is                              *)
(*   [type |-> "dict", ph, name, hlo_category, device_duration_ps, dur]    *)
(* where a missing "name" or "hlo_category" is the empty string (the       *)
(* default of the .get() calls), a missing "ph" is None, and the two       *)
(* duration fields are <<>> when absent and <<v>> when present.            *)

\* is_comm_event without the test of the hint
is_comm_event_name_only(event) ==
    LET name == Lower(event.name)
    IN  \E key \in COMM_KEYS : Contains(name, key)

\* is_comm_event(event)
is_comm_event(event) ==
    LET name == Lower(event.name)
        category == Lower(event.hlo_category)
    IN  (\E key \in COMM_KEYS : Contains(name, key)) \/ category \in COMM_KEYS

\* comm_type with the scan of the name before the test of the hint
comm_type_name_first(event, order) ==
    LET name == Lower(event.name)
        category == Lower(event.hlo_category)
        hits == {i \in 1..Len(order) : Contains(name, order[i])}
    IN  IF hits # {} THEN order[CHOOSE i \in hits : \A j \in hits : i <= j]
        ELSE IF category \in COMM_KEYS THEN category
        ELSE S_unknown

\* comm_type(event), with the iteration order of COMM_KEYS of this run
comm_type(event, order) ==
    LET name == Lower(event.name)
        category == Lower(event.hlo_category)
        hits == {i \in 1..Len(order) : Contains(name, order[i])}
    IN  IF category \in COMM_KEYS THEN category
        ELSE IF hits # {} THEN order[CHOOSE i \in hits : \A j \in hits : i <= j]
        ELSE S_unknown

PsPerUs == 1000000

\* duration_us with dur preferred to args.device_duration_ps
duration_us_dur_first(event) ==
    IF Len(event.dur) > 0
    THEN [ok |-> TRUE, value |-> event.dur[1] * PsPerUs]
    ELSE IF Len(event.device_duration_ps) > 0
    THEN [ok |-> TRUE, value |-> event.device_duration_ps[1]]
    ELSE [ok |-> FALSE, value |-> 0]

\* duration_us(event): [ok |-> TRUE, value] or the KeyError
duration_us(event) ==
    IF Len(event.device_duration_ps) > 0
    THEN [ok |-> TRUE, value |-> event.device_duration_ps[1]]
    ELSE IF Len(event.dur) > 0
    THEN [ok |-> TRUE, value |-> event.dur[1] * PsPerUs]
    ELSE [ok |-> FALSE, value |-> 0]

----------------------------------------------------------------------------
(* Trace documents.  A document is                                         *)
(*   [kind, has_traceEvents, events, other_keys]                           *)
(* kind "corrupt": gzip.open or json.load raises;                          *)
(* kind "object":  a JSON object; events is the value of "traceEvents"     *)
(*                 when has_traceEvents, other_keys are its other keys;    *)
(* kind "array":   a JSON array whose elements are events.                 *)

\* what iterating a dict yields: its keys, which are str
StrItem(key) ==
    [type |-> "str", ph |-> None, name |-> key, hlo_category |-> Empty,
     device_duration_ps |-> <<>>, dur |-> <<>>]

\* iter_trace_events(path), consumed by list(): [ok |-> TRUE, events] or an exception
iter_trace_events(doc) ==
    IF doc.kind = "corrupt"
    THEN [ok |-> FALSE, events |-> <<>>]              \* gzip / json.load raises
    ELSE IF doc.kind = "array"
    THEN [ok |-> FALSE, events |-> <<>>]              \* list has no attribute get
    ELSE IF doc.has_traceEvents
    THEN [ok |-> TRUE, events |-> doc.events]
    ELSE [ok |-> TRUE,                                \* data.get(..., data) is data
          events |-> [i \in 1..Len(doc.other_keys) |-> StrItem(doc.other_keys[i])]]

----------------------------------------------------------------------------
(* Path metadata.  A path is the sequence of its parts.                    *)

S_MODEL_ == <<"M","O","D","E","L","_">>
S_BATCH_ == <<"B","A","T","C","H","_">>
S_TP_ == <<"T","P","_">>

\* index of the first occurrence of the character c in s, 0 if none
FirstIndex(s, c) ==
    IF \E i \in 1..Len(s) : s[i] = c
    THEN CHOOSE i \in 1..Len(s) : s[i] = c /\ \A j \in 1..(i - 1) : s[j] # c
    ELSE 0

\* s.split(c)
RECURSIVE Split(_, _)
Split(s, c) ==
    LET i == FirstIndex(s, c)
    IN  IF i = 0 THEN <<s>>
        ELSE <<SubSeq(s, 1, i - 1)>> \o Split(SubSeq(s, i + 1, Len(s)), c)

\* s.split(c, 1)
Split1(s, c) ==
    LET i == FirstIndex(s, c)
    IN  IF i = 0 THEN <<s>>
        ELSE <<SubSeq(s, 1, i - 1), SubSeq(s, i + 1, Len(s))>>

\* s.removeprefix(prefix)
RemovePrefix(s, prefix) ==
    IF StartsWith(s, prefix) THEN SubSeq(s, Len(prefix) + 1, Len(s)) ELSE s

\* the inner loop with the two markers taken for each other
RECURSIVE ScanTokens_swapped(_, _)
ScanTokens_swapped(tokens, bt) ==
    IF tokens = <<>> THEN bt
    ELSE LET token == Head(tokens)
             b == IF StartsWith(token, S_TP_) THEN Split1(token, "_")[2] ELSE bt[1]
             t == IF StartsWith(token, S_BATCH_) THEN Split1(token, "_")[2] ELSE bt[2]
         IN  ScanTokens_swapped(Tail(tokens), <<b, t>>)

\* the inner loop of parse_batch_tp over the tokens of one part
RECURSIVE ScanTokens(_, _)
ScanTokens(tokens, bt) ==
    IF tokens = <<>> THEN bt
    ELSE LET token == Head(tokens)
             b == IF StartsWith(token, S_BATCH_) THEN Split1(token, "_")[2] ELSE bt[1]
             t == IF StartsWith(token, S_TP_) THEN Split1(token, "_")[2] ELSE bt[2]
         IN  ScanTokens(Tail(tokens), <<b, t>>)

\* the outer loop of parse_batch_tp over path.parts
RECURSIVE ScanParts(_, _)
ScanParts(parts, bt) ==
    IF parts = <<>> THEN bt
    ELSE LET part == Head(parts)
         IN  ScanParts(Tail(parts),
                       IF StartsWith(part, S_MODEL_)
                       THEN ScanTokens(Split(part, ","), bt)
                       ELSE bt)

\* parse_batch_tp(path) = <<batch, tp>>
parse_batch_tp(path) == ScanParts(path, <<None, None>>)

\* parse_model(path)
RECURSIVE parse_model(_)
parse_model(path) ==
    IF path = <<>> THEN None
    ELSE IF StartsWith(Head(path), S_MODEL_)
    THEN RemovePrefix(Split1(Head(path), ",")[1], S_MODEL_)
    ELSE parse_model(Tail(path))

\* model or "unknown_model": None and the empty string are falsy
model_key_of(model) ==
    IF model = None \/ model = Empty THEN S_unknown_model ELSE model

----------------------------------------------------------------------------
(* Dictionaries are functions; a defaultdict read creates the default.     *)

EmptyDict == [k \in {} |-> 0]

Get(d, k, default) == IF k \in DOMAIN d THEN d[k] ELSE default

Put(d, k, v) == [x \in (DOMAIN d) \cup {k} |-> IF x = k THEN v ELSE d[x]]

S_X == <<"X">>

\* [e for e in events if e.get("ph") == "X" and is_comm_event(e)]
\* the filter without the test of the phase
IsCommX_any_phase(e) == is_comm_event(e)

IsCommX(e) == e.ph = S_X /\ is_comm_event(e)

CommEvents(events) == SelectSeq(events, IsCommX)

\* position of ctype in the per-file list, 0 if absent
CtypeIndex(local, ctype) ==
    IF \E i \in 1..Len(local) : local[i].ctype = ctype
    THEN CHOOSE i \in 1..Len(local) : local[i].ctype = ctype
    ELSE 0

\* AddEvent with `=` in place of `+=` on totals_us
AddEvent_assign(local, evt, order) ==
    LET ctype == comm_type(evt, order)
        i == CtypeIndex(local, ctype)
        d == duration_us(evt).value
    IN  IF i = 0
        THEN Append(local, [ctype |-> ctype, total |-> d, count |-> 1])
        ELSE [local EXCEPT ![i] = [ctype |-> ctype, total |-> d,
                                   count |-> @.count + 1]]

\* one pass of `totals_us[comm_type(evt)] += duration_us(evt)` and
\* `counts[comm_type(evt)] += 1`
AddEvent(local, evt, order) ==
    LET ctype == comm_type(evt, order)
        i == CtypeIndex(local, ctype)
        d == duration_us(evt).value
    IN  IF i = 0
        THEN Append(local, [ctype |-> ctype, total |-> d, count |-> 1])
        ELSE [local EXCEPT ![i] = [ctype |-> ctype, total |-> @.total + d,
                                   count |-> @.count + 1]]

\* the loop over comm_events: totals_us and counts of one file, as the list
\* of [ctype, total, count] in insertion order of the two dicts
RECURSIVE FileTotals(_, _, _)
FileTotals(comm_events, local, order) ==
    IF comm_events = <<>> THEN local
    ELSE FileTotals(Tail(comm_events), AddEvent(local, Head(comm_events), order), order)

\* insert x into a list sorted by total, descending, after its equals
RECURSIVE InsertDesc(_, _)
InsertDesc(sorted, x) ==
    IF sorted = <<>> THEN <<x>>
    ELSE IF Head(sorted).total >= x.total
    THEN <<Head(sorted)>> \o InsertDesc(Tail(sorted), x)
    ELSE <<x>> \o sorted

\* sorted(totals_us.items(), key=lambda kv: kv[1], reverse=True): stable
RECURSIVE SortDesc(_, _)
SortDesc(local, acc) ==
    IF local = <<>> THEN acc
    ELSE SortDesc(Tail(local), InsertDesc(acc, Head(local)))

\* AddCell with the cell replaced instead of added to
AddCell_assign(grid, bt, total, cnt) == Put(grid, bt, <<total, cnt>>)

\* cell[0] += total; cell[1] += cnt
AddCell(grid, bt, total, cnt) ==
    LET cell == Get(grid, bt, <<0, 0>>)
    IN  Put(grid, bt, <<cell[1] + total, cell[2] + cnt>>)

\* one iteration of `for ctype, total in sorted(...)` on the aggregation state
\* st = [by_comm, by_model_comm, order, processed]
AddCtype(st, model, batch, tp, row) ==
    LET bt == <<batch, tp>>
        model_key == model_key_of(model)
        mk == <<model_key, row.ctype>>
    IN  [by_comm |-> Put(st.by_comm, row.ctype,
                         AddCell(Get(st.by_comm, row.ctype, EmptyDict), bt,
                                 row.total, row.count)),
         by_model_comm |-> Put(st.by_model_comm, mk,
                               AddCell(Get(st.by_model_comm, mk, EmptyDict), bt,
                                       row.total, row.count)),
         order |-> IF mk \in DOMAIN st.by_model_comm THEN st.order
                   ELSE Append(st.order, mk),
         processed |-> Put(st.processed, <<model_key, tp, batch, row.ctype>>,
                           [total_us |-> row.total, count |-> row.count])]

RECURSIVE AddRows(_, _, _, _, _)
AddRows(st, model, batch, tp, rows) ==
    IF rows = <<>> THEN st
    ELSE AddRows(AddCtype(st, model, batch, tp, Head(rows)), model, batch, tp, Tail(rows))

EmptyState ==
    [by_comm |-> EmptyDict, by_model_comm |-> EmptyDict, order |-> <<>>,
     processed |-> EmptyDict]

\* outcome of the body of `for trace_path in trace_paths` for one file:
\*   "raise"    an exception leaves main()
\*   "continue" the file has no communication event
\*   "ok"       the file was folded into the state
FileOutcome(file) ==
    LET r == iter_trace_events(file.doc)
    IN  IF ~r.ok THEN "raise"
        ELSE IF \E i \in 1..Len(r.events) : r.events[i].type # "dict" THEN "raise"
        ELSE LET comm_events == CommEvents(r.events)
             IN  IF comm_events = <<>> THEN "continue"
                 ELSE IF \E i \in 1..Len(comm_events) : ~duration_us(comm_events[i]).ok
                 THEN "raise"
                 ELSE "ok"

\* lines 126-149 for one file whose outcome is "ok"
FoldFile(st, file, order) ==
    LET comm_events == CommEvents(iter_trace_events(file.doc).events)
        local == FileTotals(comm_events, <<>>, order)
        bt == parse_batch_tp(file.path)
        model == parse_model(file.path)
    IN  AddRows(st, model, bt[1], bt[2], SortDesc(local, <<>>))

----------------------------------------------------------------------------
(* Inputs of a run: the trace files found under ROOT.                      *)

N_all_reduce_1 == K_all_reduce \o <<".","1">>
N_all_reduce_3 == K_all_reduce \o <<".","3">>
N_all_reduce_4 == K_all_reduce \o <<".","4">>
N_custom_op == <<"c","u","s","t","o","m","-","o","p">>
N_cp_start_2 == K_collective_permute_start \o <<".","2">>
N_all_reduce_scatter_2 == <<"a","l","l","-">> \o K_reduce_scatter \o <<".","2">>
N_Fusion_Send == <<"F","u","s","i","o","n",".","S","e","n","d">>
H_All_Reduce == <<"A","l","l","-","R","e","d","u","c","e">>

Event(ph, name, hint, ps, dur) ==
    [type |-> "dict", ph |-> ph, name |-> name, hlo_category |-> hint,
     device_duration_ps |-> ps, dur |-> dur]

EvAllReduce == Event(S_X, N_all_reduce_1, Empty, <<2000000>>, <<>>)
EvHinted == Event(S_X, N_Fusion_Send, H_All_Reduce, <<>>, <<3>>)
EvCustom == Event(S_X, N_custom_op, Empty, <<>>, <<5>>)
EvNoDuration == Event(S_X, N_all_reduce_3, Empty, <<>>, <<>>)
\* its name contains the labels all-reduce and reduce-scatter; both durations
EvFused == Event(S_X, N_all_reduce_scatter_2, Empty, <<1500000>>, <<9>>)
EvBegin == Event(<<"B">>, N_all_reduce_4, Empty, <<>>, <<7>>)

\* the events a trace file of a run is made of
RunEvents == {EvAllReduce, EvFused, EvCustom, EvNoDuration, EvBegin}

\* the event lists of at most n events
EventSeqs(n) == UNION {[1..k -> RunEvents] : k \in 0..n}

K_displayTimeUnit == <<"d","i","s","p","l","a","y","T","i","m","e","U","n","i","t">>

ObjectDoc(es) ==
    [kind |-> "object", has_traceEvents |-> TRUE, events |-> es, other_keys |-> <<>>]

\* an object without "traceEvents", a top-level array, a file that does not parse
OtherDocs ==
    {[kind |-> "object", has_traceEvents |-> FALSE, events |-> <<>>,
      other_keys |-> <<K_displayTimeUnit>>],
     [kind |-> "array", has_traceEvents |-> FALSE, events |-> <<EvAllReduce>>,
      other_keys |-> <<>>],
     [kind |-> "corrupt", has_traceEvents |-> FALSE, events |-> <<>>,
      other_keys |-> <<>>]}

\* the documents with at most n events
Docs(n) == {ObjectDoc(es) : es \in EventSeqs(n)} \cup {d \in OtherDocs : Len(d.events) <= n}

Part_exp == <<"e","x","p">>
Part_foo == <<"M","O","D","E","L","_","f","o","o",",","B","A","T","C","H","_","4",",","T","P","_","2">>
Part_plain == <<"p","l","a","i","n">>
File_a == <<"a",".","t","r","a","c","e",".","j","s","o","n",".","g","z">>
File_b == <<"b",".","t","r","a","c","e",".","j","s","o","n",".","g","z">>

\* the candidate trace paths, in the order sorted() gives them
Paths ==
    << <<Part_exp, Part_foo, File_a>>,
       <<Part_exp, Part_foo, File_b>>,
       <<Part_exp, Part_plain, File_a>> >>

\* the file systems over the paths from index i on, with at most nfiles
\* trace files and at most nevents events in all of them
RECURSIVE FileSystemsFrom(_, _, _)
FileSystemsFrom(i, nfiles, nevents) ==
    IF i > Len(Paths) \/ nfiles = 0 THEN {<<>>}
    ELSE FileSystemsFrom(i + 1, nfiles, nevents)
         \cup UNION { { <<[path |-> Paths[i], doc |-> d]>> \o rest :
                          rest \in FileSystemsFrom(i + 1, nfiles - 1,
                                                   nevents - Len(d.events)) }
                      : d \in Docs(nevents) }

FileSystems == FileSystemsFrom(1, MaxFiles, MaxEvents)

\* A second catalogue of trace files: two batch and tp values of one model,
\* two files without a MODEL_ segment, the labels all_gather and all-gather,
\* events without a phase.
N_all_gather_us_1 == K_all_gather_us \o <<".","1">>
N_all_gather_2 == K_all_gather \o <<".","2">>
N_all_reduce_5 == K_all_reduce \o <<".","5">>

EvUnderscore == Event(S_X, N_all_gather_us_1, Empty, <<1234567>>, <<>>)
EvHyphen == Event(S_X, N_all_gather_2, Empty, <<>>, <<3>>)
EvNoPhase == Event(None, N_all_reduce_5, Empty, <<>>, <<7>>)

AxesEvents == {EvUnderscore, EvHyphen, EvNoPhase, EvBegin}

\* the documents with at most n events, and the file that does not parse
AxesDocs(n) ==
    {ObjectDoc(es) : es \in UNION {[1..k -> AxesEvents] : k \in 0..n}}
    \cup {d \in OtherDocs : d.kind = "corrupt"}

Part_foo_10 == <<"M","O","D","E","L","_","f","o","o",",","B","A","T","C","H","_","1","0",",","T","P","_","1">>

\* in the order sorted() gives them
AxesPaths ==
    << <<Part_exp, Part_foo_10, File_a>>,
       <<Part_exp, Part_foo, File_a>>,
       <<Part_exp, Part_plain, File_a>>,
       <<Part_exp, Part_plain, File_b>> >>

RECURSIVE AxesFileSystemsFrom(_, _, _)
AxesFileSystemsFrom(i, nfiles, nevents) ==
    IF i > Len(AxesPaths) \/ nfiles = 0 THEN {<<>>}
    ELSE AxesFileSystemsFrom(i + 1, nfiles, nevents)
         \cup UNION { { <<[path |-> AxesPaths[i], doc |-> d]>> \o rest :
                          rest \in AxesFileSystemsFrom(i + 1, nfiles - 1,
                                                       nevents - Len(d.events)) }
                      : d \in AxesDocs(nevents) }

\* A third catalogue: a trace event whose duration is below zero
N_all_reduce_6 == K_all_reduce \o <<".","6">>

EvNegative == Event(S_X, N_all_reduce_6, Empty, <<>>, <<0 - 3>>)

SignedEvents == {EvAllReduce, EvNegative}

SignedDocs(n) ==
    {ObjectDoc(es) : es \in UNION {[1..k -> SignedEvents] : k \in 0..n}}
    \cup {d \in OtherDocs : d.kind = "corrupt"}

RECURSIVE SignedFileSystemsFrom(_, _, _)
SignedFileSystemsFrom(i, nfiles, nevents) ==
    IF i > Len(Paths) \/ nfiles = 0 THEN {<<>>}
    ELSE SignedFileSystemsFrom(i + 1, nfiles, nevents)
         \cup UNION { { <<[path |-> Paths[i], doc |-> d]>> \o rest :
                          rest \in SignedFileSystemsFrom(i + 1, nfiles - 1,
                                                         nevents - Len(d.events)) }
                      : d \in SignedDocs(nevents) }

----------------------------------------------------------------------------
(* Text: the order of str, int(), the format specifications, re.sub        *)

Digits == <<"0","1","2","3","4","5","6","7","8","9">>

DigitSet == Range(Digits)

\* the characters of the inputs, in code point order
AsciiChars ==
    <<" ", "+", ",", "-", ".", "/">> \o Digits \o UpperChars \o <<"_">> \o LowerChars

Ord == [c \in Range(AsciiChars) |-> CHOOSE i \in 1..Len(AsciiChars) : AsciiChars[i] = c]

\* a < b on str
RECURSIVE StrLess(_, _)
StrLess(a, b) ==
    IF b = <<>> THEN FALSE
    ELSE IF a = <<>> THEN TRUE
    ELSE IF a[1] = b[1] THEN StrLess(Tail(a), Tail(b))
    ELSE Ord[a[1]] < Ord[b[1]]

\* s.strip(c)
RECURSIVE LStrip(_, _)
LStrip(s, c) == IF s # <<>> /\ s[1] = c THEN LStrip(Tail(s), c) ELSE s

Strip(s, c) == Reverse(LStrip(Reverse(LStrip(s, c)), c))

\* s.replace(a, b) for single characters
Replace(s, a, b) == [i \in 1..Len(s) |-> IF s[i] = a THEN b ELSE s[i]]

\* the text int() reads a number from: blanks around it and one sign are dropped
IntBody(s) ==
    LET t == Strip(s, " ")
    IN  IF t # <<>> /\ t[1] \in {"+", "-"} THEN Tail(t) ELSE t

\* int(val) does not raise ValueError
ParsesInt(val) ==
    LET d == IntBody(val)
    IN  /\ d # <<>>
        /\ \A i \in 1..Len(d) : d[i] \in DigitSet \cup {"_"}
        /\ d[1] # "_"
        /\ d[Len(d)] # "_"
        /\ \A i \in 1..(Len(d) - 1) : ~(d[i] = "_" /\ d[i + 1] = "_")

RECURSIVE DigitsValue(_, _)
DigitsValue(d, acc) ==
    IF d = <<>> THEN acc
    ELSE IF d[1] = "_" THEN DigitsValue(Tail(d), acc)
    ELSE DigitsValue(Tail(d), 10 * acc + (Ord[d[1]] - Ord["0"]))

\* int(val)
IntValue(val) ==
    LET t == Strip(val, " ")
        n == DigitsValue(IntBody(val), 0)
    IN  IF t[1] = "-" THEN 0 - n ELSE n

\* str(n) for n >= 0
RECURSIVE IntToStr(_)
IntToStr(n) ==
    IF n < 10 THEN <<Digits[n + 1]>>
    ELSE IntToStr(n \div 10) \o <<Digits[(n % 10) + 1]>>

RECURSIVE ZeroPad(_, _)
ZeroPad(s, width) == IF Len(s) >= width THEN s ELSE ZeroPad(<<"0">> \o s, width)

SortKeyWidth == 10

\* f"{n:010d}": the sign counts in the width
Format010d(n) ==
    IF n < 0 THEN <<"-">> \o ZeroPad(IntToStr(0 - n), SortKeyWidth - 1)
    ELSE ZeroPad(IntToStr(n), SortKeyWidth)

\* sort_key(val) of main()
sort_key(val) ==
    IF val = None THEN <<1, Empty>>
    ELSE IF ParsesInt(val) THEN <<0, Format010d(IntValue(val))>>
    ELSE <<0, val>>

\* k1 < k2 on the tuples sort_key returns
KeyLess(k1, k2) == k1[1] < k2[1] \/ (k1[1] = k2[1] /\ StrLess(k1[2], k2[2]))

\* sorted(values, key=sort_key) of a set: the sort is stable, so values with
\* equal keys come out in the order the set is iterated in, which is any order
RECURSIVE Sortings(_)
Sortings(values) ==
    IF values = {} THEN {<<>>}
    ELSE UNION { { <<m>> \o rest : rest \in Sortings(values \ {m}) } :
                 m \in {x \in values :
                          \A y \in values : ~KeyLess(sort_key(y), sort_key(x))} }

\* x sorts before y under key(x) of ensure_sorted_numeric: (0, int(x)), or
\* (1, str(x)) when int() raises
PlotKeyLess(x, y) ==
    IF ParsesInt(x)
    THEN (IF ParsesInt(y) THEN IntValue(x) < IntValue(y) ELSE TRUE)
    ELSE (IF ParsesInt(y) THEN FALSE ELSE StrLess(x, y))

\* sorted(values, key=key), stable over the order of first appearance
RECURSIVE PlotSortings(_)
PlotSortings(values) ==
    IF values = {} THEN {<<>>}
    ELSE UNION { { <<m>> \o rest : rest \in PlotSortings(values \ {m}) } :
                 m \in {x \in values : \A y \in values : ~PlotKeyLess(y, x)} }

\* ensure_sorted_numeric(series) of generate_plots: dropna().unique(), sorted
ensure_sorted_numeric(series) == PlotSortings(series \ {None})

AlnumSet == DigitSet \cup Range(UpperChars) \cup Range(LowerChars)

\* re.sub(r"[^A-Za-z0-9]+", "-", text)
RECURSIVE SubNonAlnum(_, _)
SubNonAlnum(text, in_run) ==
    IF text = <<>> THEN <<>>
    ELSE IF text[1] \in AlnumSet THEN <<text[1]>> \o SubNonAlnum(Tail(text), FALSE)
    ELSE IF in_run THEN SubNonAlnum(Tail(text), TRUE)
    ELSE <<"-">> \o SubNonAlnum(Tail(text), TRUE)

\* sanitize_filename(text)
sanitize_filename(text) == Lower(Strip(SubNonAlnum(text, FALSE), "-"))

PsPerThousandth == 1000

\* f"{total_us:.3f}" of a total kept in picoseconds: the nearest thousandth of
\* a microsecond. A total midway between two thousandths is rounded by the
\* binary value of the float; no trace of the inputs adds up to one.
Format3f(total) ==
    LET abs == IF total < 0 THEN 0 - total ELSE total
        m == (abs + PsPerThousandth \div 2) \div PsPerThousandth
    IN  (IF total < 0 THEN <<"-">> ELSE <<>>)
            \o IntToStr(m \div 1000) \o <<".">> \o ZeroPad(IntToStr(m % 1000), 3)

\* RenderCell without the rounding to three places
RenderCell_truncating(cell) ==
    IntToStr(cell[1] \div PsPerUs) \o <<".">>
        \o ZeroPad(IntToStr((cell[1] % PsPerUs) \div PsPerThousandth), 3)
        \o <<"/">> \o IntToStr(cell[2])

\* f"{total_us:.3f}/{count}"
RenderCell(cell) == Format3f(cell[1]) \o <<"/">> \o IntToStr(cell[2])

S_communication_results == <<"-","c","o","m","m","u","n","i","c","a","t","i","o","n","-","r","e","s","u","l","t","s","-">>

S_csv == <<".","c","s","v">>

S_batch_tp == <<"b","a","t","c","h"," ","\\"," ","t","p">>

\* the name of the file at out_path, inside CSV_DIR
GridFileName(model, ctype) ==
    sanitize_filename(model_key_of(model))
        \o S_communication_results \o Replace(ctype, "_", "-") \o S_csv

\* csv.writer writes None as the empty field
CsvField(val) == IF val = None THEN Empty ELSE val

\* the rows the writer gets after the header
GridRows(grid, sorted_batches_local, sorted_tps_local) ==
    [i \in 1..Len(sorted_batches_local) |->
        <<CsvField(sorted_batches_local[i])>>
        \o [j \in 1..Len(sorted_tps_local) |->
              RenderCell(Get(grid,
                             <<sorted_batches_local[i], sorted_tps_local[j]>>,
                             <<0, 0>>))]]

----------------------------------------------------------------------------
(* main() *)

Init ==
    /\ files \in FileSystems
    /\ comm_order \in RunOrders
    /\ pc = "start"
    /\ idx = 0
    /\ totals_by_comm = EmptyDict
    /\ totals_by_model_comm = EmptyDict
    /\ model_comm_order = <<>>
    /\ processed_data = EmptyDict
    /\ batches = {}
    /\ tps = {}
    /\ written = <<>>
    /\ op = "none"
    /\ arg = <<>>
    /\ ret = <<>>

unitVars == <<op, arg, ret>>

\* Discover without the SystemExit of lines 103-104
Discover_no_exit ==
    /\ pc = "start"
    /\ pc' = "loop"
    /\ UNCHANGED <<files, comm_order, idx, totals_by_comm, totals_by_model_comm,
                   model_comm_order, processed_data, batches, tps, written>>
    /\ UNCHANGED unitVars

\* lines 102-115: the scan, the SystemExit on an empty scan, the empty dicts
Discover ==
    /\ pc = "start"
    /\ pc' = IF files = <<>> THEN "exit_no_traces" ELSE "loop"
    /\ UNCHANGED <<files, comm_order, idx, totals_by_comm, totals_by_model_comm,
                   model_comm_order, processed_data, batches, tps, written>>
    /\ UNCHANGED unitVars

\* lines 117-152 for a file that is folded into the state
ProcessFile ==
    /\ pc = "loop"
    /\ idx < Len(files)
    /\ FileOutcome(files[idx + 1]) = "ok"
    /\ LET file == files[idx + 1]
           bt == parse_batch_tp(file.path)
           st == FoldFile([by_comm |-> totals_by_comm,
                           by_model_comm |-> totals_by_model_comm,
                           order |-> model_comm_order,
                           processed |-> processed_data], file, comm_order)
       IN  /\ batches' = batches \cup {bt[1]}
           /\ tps' = tps \cup {bt[2]}
           /\ totals_by_comm' = st.by_comm
           /\ totals_by_model_comm' = st.by_model_comm
           /\ model_comm_order' = st.order
           /\ processed_data' = st.processed
    /\ idx' = idx + 1
    /\ UNCHANGED <<files, comm_order, pc, written>>
    /\ UNCHANGED unitVars

\* the file without communication events with the axes updated before `continue`
SkipFile_adds_axes ==
    /\ pc = "loop"
    /\ idx < Len(files)
    /\ FileOutcome(files[idx + 1]) = "continue"
    /\ idx' = idx + 1
    /\ batches' = batches \cup {parse_batch_tp(files[idx + 1].path)[1]}
    /\ tps' = tps \cup {parse_batch_tp(files[idx + 1].path)[2]}
    /\ UNCHANGED <<files, comm_order, pc, totals_by_comm, totals_by_model_comm,
                   model_comm_order, processed_data, written>>
    /\ UNCHANGED unitVars

\* lines 117-124 for a file without communication events: `continue`
SkipFile ==
    /\ pc = "loop"
    /\ idx < Len(files)
    /\ FileOutcome(files[idx + 1]) = "continue"
    /\ idx' = idx + 1
    /\ UNCHANGED <<files, comm_order, pc, totals_by_comm, totals_by_model_comm,
                   model_comm_order, processed_data, batches, tps, written>>
    /\ UNCHANGED unitVars

\* lines 119-129 raise: nothing catches the exception, main() ends with a traceback
RaiseInFile ==
    /\ pc = "loop"
    /\ idx < Len(files)
    /\ FileOutcome(files[idx + 1]) = "raise"
    /\ idx' = idx + 1
    /\ pc' = "raised"
    /\ UNCHANGED <<files, comm_order, totals_by_comm, totals_by_model_comm,
                   model_comm_order, processed_data, batches, tps, written>>
    /\ UNCHANGED unitVars

\* lines 154-166: the early return when no file had a communication event
EndLoop ==
    /\ pc = "loop"
    /\ idx = Len(files)
    /\ pc' = IF DOMAIN totals_by_comm = {} THEN "returned" ELSE "grids"
    /\ UNCHANGED <<files, comm_order, idx, totals_by_comm, totals_by_model_comm,
                   model_comm_order, processed_data, batches, tps, written>>
    /\ UNCHANGED unitVars

\* the loop with grid[(batch, tp)] in place of grid.get: the read of a
\* defaultdict creates the cell
WriteGrid_inserting ==
    /\ pc = "grids"
    /\ Len(written) < Len(model_comm_order)
    /\ LET mk == model_comm_order[Len(written) + 1]
           grid == totals_by_model_comm[mk]
           grid_batches == {k[1] : k \in DOMAIN grid}
           grid_tps == {k[2] : k \in DOMAIN grid}
       IN  \E sorted_batches_local \in Sortings(grid_batches),
              sorted_tps_local \in Sortings(grid_tps) :
             written' = Append(written,
                [kind |-> "grid", model |-> mk[1], ctype |-> mk[2],
                 cells |-> grid,
                 out_path |-> GridFileName(mk[1], mk[2]),
                 batches |-> sorted_batches_local,
                 tps |-> sorted_tps_local,
                 header |-> <<S_batch_tp>>
                            \o [j \in 1..Len(sorted_tps_local) |->
                                  CsvField(sorted_tps_local[j])],
                 rows |-> GridRows(grid, sorted_batches_local, sorted_tps_local)])
    /\ totals_by_model_comm' =
          LET mk == model_comm_order[Len(written) + 1]
              grid == totals_by_model_comm[mk]
          IN  Put(totals_by_model_comm, mk,
                  [bt \in {k[1] : k \in DOMAIN grid} \X {k[2] : k \in DOMAIN grid} |->
                      Get(grid, bt, <<0, 0>>)])
    /\ UNCHANGED <<files, comm_order, pc, idx, totals_by_comm,
                   model_comm_order, processed_data, batches, tps>>
    /\ UNCHANGED unitVars

\* lines 169-189: one iteration of the loop over totals_by_model_comm.items().
\* The artifact is recorded by the grid it is written from: the pair
\* (model, ctype) and the cells of that pair.
WriteGrid ==
    /\ pc = "grids"
    /\ Len(written) < Len(model_comm_order)
    /\ LET mk == model_comm_order[Len(written) + 1]
           grid == totals_by_model_comm[mk]
           grid_batches == {k[1] : k \in DOMAIN grid}
           grid_tps == {k[2] : k \in DOMAIN grid}
       IN  \E sorted_batches_local \in Sortings(grid_batches),
              sorted_tps_local \in Sortings(grid_tps) :
             written' = Append(written,
                [kind |-> "grid", model |-> mk[1], ctype |-> mk[2],
                 cells |-> grid,
                 out_path |-> GridFileName(mk[1], mk[2]),
                 batches |-> sorted_batches_local,
                 tps |-> sorted_tps_local,
                 header |-> <<S_batch_tp>>
                            \o [j \in 1..Len(sorted_tps_local) |->
                                  CsvField(sorted_tps_local[j])],
                 rows |-> GridRows(grid, sorted_batches_local, sorted_tps_local)])
    /\ UNCHANGED <<files, comm_order, pc, idx, totals_by_comm, totals_by_model_comm,
                   model_comm_order, processed_data, batches, tps>>
    /\ UNCHANGED unitVars

LongFormColumns == <<"model", "tp", "batch", "comm_type", "total_us", "count">>

\* the rows with every combination of the values of the keys, zero where
\* nothing was accumulated
LongFormRows_filled ==
    {[model |-> m, tp |-> t, batch |-> b, comm_type |-> c,
      total_us |-> Get(processed_data, <<m, t, b, c>>,
                       [total_us |-> 0, count |-> 0]).total_us,
      count |-> Get(processed_data, <<m, t, b, c>>,
                    [total_us |-> 0, count |-> 0]).count] :
        m \in {k[1] : k \in DOMAIN processed_data},
        t \in {k[2] : k \in DOMAIN processed_data},
        b \in {k[3] : k \in DOMAIN processed_data},
        c \in {k[4] : k \in DOMAIN processed_data}}

\* lines 194-207: the rows of the long-form DataFrame
LongFormRows ==
    {[model |-> k[1], tp |-> k[2], batch |-> k[3], comm_type |-> k[4],
      total_us |-> processed_data[k].total_us, count |-> processed_data[k].count] :
        k \in DOMAIN processed_data}

\* lines 192-213: the parquet and the flat csv
ExportLongForm ==
    /\ pc = "grids"
    /\ Len(written) = Len(model_comm_order)
    /\ written' = IF DOMAIN processed_data # {}
                  THEN written \o <<[kind |-> "parquet", columns |-> LongFormColumns,
                                     rows |-> LongFormRows],
                                    [kind |-> "csv", columns |-> LongFormColumns,
                                     rows |-> LongFormRows]>>
                  ELSE written
    /\ pc' = "done"
    /\ UNCHANGED <<files, comm_order, idx, totals_by_comm, totals_by_model_comm,
                   model_comm_order, processed_data, batches, tps>>
    /\ UNCHANGED unitVars

Next ==
    \/ Discover
    \/ ProcessFile
    \/ SkipFile
    \/ RaiseInFile
    \/ EndLoop
    \/ WriteGrid
    \/ ExportLongForm

Spec == Init /\ [][Next]_vars

\* main() over the second catalogue; no name of it holds two labels, so one
\* iteration order of COMM_KEYS stands for all
InitAxes ==
    /\ files \in AxesFileSystemsFrom(1, MaxFiles, MaxEvents)
    /\ comm_order = COMM_KEYS_DECL
    /\ pc = "start"
    /\ idx = 0
    /\ totals_by_comm = EmptyDict
    /\ totals_by_model_comm = EmptyDict
    /\ model_comm_order = <<>>
    /\ processed_data = EmptyDict
    /\ batches = {}
    /\ tps = {}
    /\ written = <<>>
    /\ op = "none"
    /\ arg = <<>>
    /\ ret = <<>>

SpecAxes == InitAxes /\ [][Next]_vars

\* main() over the third catalogue
InitSigned ==
    /\ files \in SignedFileSystemsFrom(1, MaxFiles, MaxEvents)
    /\ comm_order = COMM_KEYS_DECL
    /\ pc = "start"
    /\ idx = 0
    /\ totals_by_comm = EmptyDict
    /\ totals_by_model_comm = EmptyDict
    /\ model_comm_order = <<>>
    /\ processed_data = EmptyDict
    /\ batches = {}
    /\ tps = {}
    /\ written = <<>>
    /\ op = "none"
    /\ arg = <<>>
    /\ ret = <<>>

SpecSigned == InitSigned /\ [][Next]_vars

----------------------------------------------------------------------------
(* The event classifier and the duration extraction applied to one event.  *)

N_ag_a2a == K_all_gather \o <<".">> \o K_all_to_all
N_receive_7 == <<"r","e","c","e","i","v","e",".","7">>
N_recv_done == K_recv \o <<"-","d","o","n","e">>
H_receive == <<"r","e","c","e","i","v","e">>
H_fusion == <<"f","u","s","i","o","n">>

ClassifyNames ==
    {Empty, N_all_reduce_1, N_custom_op, N_cp_start_2, N_all_reduce_scatter_2,
     N_Fusion_Send, N_ag_a2a, N_receive_7, N_recv_done}

ClassifyHints == {Empty, H_All_Reduce, K_recv, H_receive, H_fusion}

ClassifyEvents ==
    {Event(S_X, n, h, d[1], d[2]) :
        n \in ClassifyNames, h \in ClassifyHints,
        d \in {<< <<>>, <<>> >>, << <<2000000>>, <<>> >>, << <<>>, <<3>> >>,
               << <<2000000>>, <<3>> >>}}

InitClassify ==
    /\ files = <<>>
    /\ comm_order \in SetOrders
    /\ pc = "unit"
    /\ idx = 0
    /\ totals_by_comm = EmptyDict
    /\ totals_by_model_comm = EmptyDict
    /\ model_comm_order = <<>>
    /\ processed_data = EmptyDict
    /\ batches = {}
    /\ tps = {}
    /\ written = <<>>
    /\ op = "ready"
    /\ arg \in ClassifyEvents
    /\ ret = <<>>

CallIsCommEvent ==
    /\ op = "ready"
    /\ op' = "is_comm_event"
    /\ ret' = is_comm_event(arg)
    /\ UNCHANGED <<arg>>
    /\ UNCHANGED mainVars

CallCommType ==
    /\ op = "ready"
    /\ op' = "comm_type"
    /\ ret' = comm_type(arg, comm_order)
    /\ UNCHANGED <<arg>>
    /\ UNCHANGED mainVars

CallDurationUs ==
    /\ op = "ready"
    /\ op' = "duration_us"
    /\ ret' = duration_us(arg)
    /\ UNCHANGED <<arg>>
    /\ UNCHANGED mainVars

NextClassify ==
    \/ CallIsCommEvent
    \/ CallCommType
    \/ CallDurationUs

SpecClassify == InitClassify /\ [][NextClassify]_vars

----------------------------------------------------------------------------
(* Properties of a run of main()                                           *)

\* the loop has consumed idx files and none of them raised
LoopIntact == pc \in {"loop", "grids", "done", "returned"}

\* main() ended without an exception
Finished == pc \in {"returned", "done"}

FileKey(file) ==
    <<model_key_of(parse_model(file.path)), parse_batch_tp(file.path)>>

\* the events the loop body sees in a trace file it consumed without raising
EventsOf(file) == iter_trace_events(file.doc).events

\* sum of the durations of the phase-"X" communication events of category c
RECURSIVE TotalIn(_, _)
TotalIn(events, c) ==
    IF events = <<>> THEN 0
    ELSE (IF IsCommX(Head(events)) /\ comm_type(Head(events), comm_order) = c
          THEN duration_us(Head(events)).value ELSE 0)
         + TotalIn(Tail(events), c)

\* number of the phase-"X" communication events of category c
RECURSIVE CountIn(_, _)
CountIn(events, c) ==
    IF events = <<>> THEN 0
    ELSE (IF IsCommX(Head(events)) /\ comm_type(Head(events), comm_order) = c
          THEN 1 ELSE 0)
         + CountIn(Tail(events), c)

\* the same over the first n trace files whose path yields the key (model, (batch, tp))
RECURSIVE TotalOver(_, _, _)
TotalOver(n, key, c) ==
    IF n = 0 THEN 0
    ELSE (IF FileKey(files[n]) = key THEN TotalIn(EventsOf(files[n]), c) ELSE 0)
         + TotalOver(n - 1, key, c)

RECURSIVE CountOver(_, _, _)
CountOver(n, key, c) ==
    IF n = 0 THEN 0
    ELSE (IF FileKey(files[n]) = key THEN CountIn(EventsOf(files[n]), c) ELSE 0)
         + CountOver(n - 1, key, c)

\* the categories of the phase-"X" communication events of the first n files
CategoriesIn(n) ==
    UNION { { comm_type(EventsOf(files[i])[j], comm_order) :
                j \in {x \in 1..Len(EventsOf(files[i])) : IsCommX(EventsOf(files[i])[x])} }
            : i \in 1..n }

CellOf(m, c, bt) ==
    IF <<m, c>> \in DOMAIN totals_by_model_comm
    THEN Get(totals_by_model_comm[<<m, c>>], bt, None)
    ELSE None

\* C2: once the loop has consumed some trace files, every grid cell
\* (model, category, batch, tp) holds the exact sum of the durations and the
\* number of the phase-"X" communication events of that category in the
\* consumed files whose path yields that (model, batch, tp); a combination
\* without such an event has no cell, so every event is counted in one cell.
C2_GridCellsAreExactSums ==
    LoopIntact =>
        LET cats == CategoriesIn(idx) \cup {mk[2] : mk \in DOMAIN totals_by_model_comm}
            keys == {FileKey(files[i]) : i \in 1..idx}
        IN  /\ \A k \in keys : \A c \in cats :
                  LET n == CountOver(idx, k, c)
                  IN  CellOf(k[1], c, k[2]) =
                          IF n = 0 THEN None ELSE <<TotalOver(idx, k, c), n>>
            /\ \A mk \in DOMAIN totals_by_model_comm :
                  \A bt \in DOMAIN totals_by_model_comm[mk] : <<mk[1], bt>> \in keys

\* two files of the same (model, batch, tp) were folded into one cell
C2_Witness ==
    /\ pc = "done"
    /\ idx = 2
    /\ FileKey(files[1]) = FileKey(files[2])
    /\ \E mk \in DOMAIN totals_by_model_comm : \E bt \in DOMAIN totals_by_model_comm[mk] :
          /\ TotalIn(EventsOf(files[1]), mk[2]) = 2000000
          /\ TotalIn(EventsOf(files[2]), mk[2]) = 1500000
          /\ totals_by_model_comm[mk][bt] = <<3500000, 2>>

\* C1: at the end of a run every long-form record carries the total and the
\* count of the grid cell of the same model, category, batch and tp.
C1_LongFormEqualsGrid ==
    pc = "done" =>
        \A i \in 1..Len(written) : \A j \in 1..Len(written) :
            (written[i].kind = "grid" /\ written[j].kind = "parquet") =>
                \A r \in written[j].rows :
                    (r.model = written[i].model /\ r.comm_type = written[i].ctype) =>
                        /\ <<r.batch, r.tp>> \in DOMAIN written[i].cells
                        /\ written[i].cells[<<r.batch, r.tp>>] = <<r.total_us, r.count>>

\* the loop of main() over a list of trace files none of which raises
RECURSIVE RunFiles(_, _)
RunFiles(fs, st) ==
    IF fs = <<>> THEN st
    ELSE RunFiles(Tail(fs),
                  IF FileOutcome(Head(fs)) = "ok" THEN FoldFile(st, Head(fs), comm_order)
                  ELSE st)

FilePermutations(n) == {p \in [1..n -> 1..n] : \A i, j \in 1..n : p[i] = p[j] => i = j}

ReverseEvents(file) == [file EXCEPT !.doc.events = Reverse(@)]

\* C3: a run that processes the same trace files in another order, with the
\* events of every file in another order, ends with the same grid cells and
\* the same long-form records.
C3_OrderIndependent ==
    pc = "done" =>
        \A p \in FilePermutations(Len(files)) : \A rev \in BOOLEAN :
            LET fs == [i \in 1..Len(files) |->
                          IF rev THEN ReverseEvents(files[p[i]]) ELSE files[p[i]]]
                st == RunFiles(fs, EmptyState)
            IN  /\ st.by_model_comm = totals_by_model_comm
                /\ st.processed = processed_data

\* the events of a list at the positions of S, in their order
RECURSIVE Pick(_, _, _)
Pick(events, S, i) ==
    IF i > Len(events) THEN <<>>
    ELSE (IF i \in S THEN <<events[i]>> ELSE <<>>) \o Pick(events, S, i + 1)

\* totals_by_model_comm after accumulating the given events of a trace file
\* into an empty state
Accumulate(file, events) ==
    LET part == [file EXCEPT !.doc.events = events]
    IN  IF CommEvents(events) = <<>> THEN EmptyDict
        ELSE FoldFile(EmptyState, part, comm_order).by_model_comm

MergeCells(a, b) ==
    [bt \in (DOMAIN a) \cup (DOMAIN b) |->
        <<Get(a, bt, <<0, 0>>)[1] + Get(b, bt, <<0, 0>>)[1],
          Get(a, bt, <<0, 0>>)[2] + Get(b, bt, <<0, 0>>)[2]>>]

\* addition of two states key by key
MergeGrids(A, B) ==
    [mk \in (DOMAIN A) \cup (DOMAIN B) |->
        MergeCells(Get(A, mk, EmptyDict), Get(B, mk, EmptyDict))]

C5_CorruptFileIsSkipped ==
    \A i \in 1..idx : files[i].doc.kind = "corrupt" => pc # "raised"

\* a phase-"X" communication event without device_duration_ps and without dur
LacksDuration(e) == IsCommX(e) /\ ~duration_us(e).ok

\* C6: a phase-"X" communication event that carries no duration is skipped
\* on its own; the run does not end with an exception because of it.
C6_EventWithoutDurationIsSkipped ==
    \A i \in 1..idx :
        ( /\ files[i].doc.kind = "object"
          /\ files[i].doc.has_traceEvents
          /\ \E j \in 1..Len(files[i].doc.events) : LacksDuration(files[i].doc.events[j]) )
        => pc # "raised"

\* C7: when the scan finds no trace file the run ends with the SystemExit,
\* no file is read and no artifact is written.
C7_NoTraceFilesIsFatal ==
    files = <<>> => /\ pc \in {"start", "exit_no_traces"}
                    /\ idx = 0
                    /\ written = <<>>

C7_Witness == files = <<>> /\ pc = "exit_no_traces"

\* C8: a run that found trace files but no communication event still writes
\* the columnar export and the flat text export, with the header columns
\* and no rows.
C8_EmptyLongFormIsExported ==
    (Finished /\ files # <<>> /\ DOMAIN processed_data = {}) =>
        /\ \E i \in 1..Len(written) :
              /\ written[i].kind = "parquet"
              /\ written[i].columns = LongFormColumns
              /\ written[i].rows = {}
        /\ \E i \in 1..Len(written) :
              /\ written[i].kind = "csv"
              /\ written[i].columns = LongFormColumns
              /\ written[i].rows = {}

----------------------------------------------------------------------------
(* Properties of the event classifier                                      *)

\* the known labels that occur in the lower-cased name of an event
LabelsIn(event) == {i \in 1..Len(COMM_KEYS_DECL) : Contains(Lower(event.name), COMM_KEYS_DECL[i])}

\* C9: when the lower-cased hint is a known label, comm_type returns it,
\* whatever the name contains.
C9_HintTakesPrecedence ==
    (op = "comm_type" /\ Lower(arg.hlo_category) \in COMM_KEYS)
        => ret = Lower(arg.hlo_category)

\* the hint is a known label and the name contains a different one
C9_Witness ==
    /\ op = "comm_type"
    /\ arg.hlo_category = H_All_Reduce
    /\ arg.name = N_Fusion_Send
    /\ LabelsIn(arg) # {}
    /\ ret = K_all_reduce

\* C10: when the hint is no known label and the name contains two or more
\* known labels, comm_type returns the one declared first.
C10_FirstDeclaredLabelWins ==
    ( /\ op = "comm_type"
      /\ Lower(arg.hlo_category) \notin COMM_KEYS
      /\ Cardinality(LabelsIn(arg)) >= 2 )
        => ret = COMM_KEYS_DECL[CHOOSE i \in LabelsIn(arg) : \A j \in LabelsIn(arg) : i <= j]

----------------------------------------------------------------------------
(* The trace reader applied to one document                                *)

\* the state of main() while a single function is applied
UnitMain ==
    /\ files = <<>>
    /\ pc = "unit"
    /\ idx = 0
    /\ totals_by_comm = EmptyDict
    /\ totals_by_model_comm = EmptyDict
    /\ model_comm_order = <<>>
    /\ processed_data = EmptyDict
    /\ batches = {}
    /\ tps = {}
    /\ written = <<>>

ArrayDoc(es) ==
    [kind |-> "array", has_traceEvents |-> FALSE, events |-> es, other_keys |-> <<>>]

ReaderDocs ==
    {ObjectDoc(es) : es \in EventSeqs(MaxEvents)}
    \cup {ArrayDoc(es) : es \in EventSeqs(MaxEvents)}
    \cup OtherDocs
    \cup {[kind |-> "object", has_traceEvents |-> FALSE, events |-> <<>>,
           other_keys |-> <<>>]}

InitReader ==
    /\ UnitMain
    /\ comm_order = COMM_KEYS_DECL
    /\ op = "ready"
    /\ arg \in ReaderDocs
    /\ ret = <<>>

CallIterTraceEvents ==
    /\ op = "ready"
    /\ op' = "iter_trace_events"
    /\ ret' = iter_trace_events(arg)
    /\ UNCHANGED <<arg>>
    /\ UNCHANGED mainVars

NextReader == CallIterTraceEvents

SpecReader == InitReader /\ [][NextReader]_vars

\* C11: iter_trace_events yields every event of the document, when the events
\* are under "traceEvents" of an object and when the document is the array
\* of events itself.
C11_BothShapesAreRead ==
    ( /\ op = "iter_trace_events"
      /\ \/ arg.kind = "object" /\ arg.has_traceEvents
         \/ arg.kind = "array" )
        => /\ ret.ok
           /\ ret.events = arg.events

\* C12: duration_us is device_duration_ps / 1,000,000 whenever that field is
\* present, dur when only dur is present, and an error when neither is.
C12_DurationPrefersPicoseconds ==
    op = "duration_us" =>
        IF Len(arg.device_duration_ps) > 0
        THEN ret.ok /\ ret.value = arg.device_duration_ps[1]
        ELSE IF Len(arg.dur) > 0
        THEN ret.ok /\ ret.value = arg.dur[1] * PsPerUs
        ELSE ~ret.ok

\* both fields are present and the picoseconds were taken
C12_Witness ==
    /\ op = "duration_us"
    /\ arg.device_duration_ps = <<2000000>>
    /\ arg.dur = <<3>>
    /\ ret = [ok |-> TRUE, value |-> 2000000]

----------------------------------------------------------------------------
(* The axis order applied to one set of batch or tp values                 *)

\* values a BATCH_ or TP_ token can carry, and the None of a path without one
AxisValues ==
    {<<"1">>, <<"1","0">>, <<"2">>, <<"a">>, Empty, <<"-","1">>, <<"-","2">>,
     <<"0",".","5">>, None}

InitSort ==
    /\ UnitMain
    /\ comm_order = COMM_KEYS_DECL
    /\ op = "ready"
    /\ arg \in SUBSET AxisValues
    /\ ret = <<>>

\* sorted(grid_batches, key=sort_key)
CallSorted ==
    /\ op = "ready"
    /\ op' = "sorted"
    /\ ret' \in Sortings(arg)
    /\ UNCHANGED <<arg>>
    /\ UNCHANGED mainVars

\* ensure_sorted_numeric on the column that holds the same values
CallEnsureSortedNumeric ==
    /\ op = "ready"
    /\ op' = "ensure_sorted_numeric"
    /\ ret' \in ensure_sorted_numeric(arg)
    /\ UNCHANGED <<arg>>
    /\ UNCHANGED mainVars

NextSort == CallSorted \/ CallEnsureSortedNumeric

SpecSort == InitSort /\ [][NextSort]_vars

\* C18: on the string values of an axis, the values that parse as integers
\* come first in ascending numeric order and the other values follow in
\* lexicographic order.
C18_NumericFirstAscending ==
    op = "sorted" =>
        \A i \in 1..Len(ret) : \A j \in (i + 1)..Len(ret) :
            (ret[i] # None /\ ret[j] # None) =>
                /\ ParsesInt(ret[j]) => ParsesInt(ret[i])
                /\ (ParsesInt(ret[i]) /\ ParsesInt(ret[j]))
                       => IntValue(ret[i]) <= IntValue(ret[j])
                /\ (~ParsesInt(ret[i]) /\ ~ParsesInt(ret[j]))
                       => ~StrLess(ret[j], ret[i])

----------------------------------------------------------------------------
(* The path parsers applied to one path                                    *)

S_SEQ_128 == <<"S","E","Q","_","1","2","8">>

PathModels == {<<"f","o","o">>, <<"m","y","_","m">>, Empty}

PathBatches == {None, <<"4">>, <<"1","_","0">>}

PathTps == {None, <<"2">>}

RECURSIVE JoinAfter(_, _)
JoinAfter(head, tokens) ==
    IF tokens = <<>> THEN head
    ELSE JoinAfter(head \o <<",">> \o Head(tokens), Tail(tokens))

\* the sub-tokens after the model: the markers that are present, in one of
\* the two orders, with or without a sub-token that is no marker
SubTokens(batch, tp, tp_first, extra) ==
    LET b == IF batch = None THEN <<>> ELSE <<S_BATCH_ \o batch>>
        t == IF tp = None THEN <<>> ELSE <<S_TP_ \o tp>>
        x == IF extra THEN <<S_SEQ_128>> ELSE <<>>
    IN  IF tp_first THEN t \o x \o b ELSE b \o x \o t

\* a path exp/MODEL_<m>,.../a.trace.json.gz with what it was built from
SegmentPaths ==
    {[model |-> m, batch |-> b, tp |-> t, tp_first |-> f, extra |-> x,
      path |-> <<Part_exp, JoinAfter(S_MODEL_ \o m, SubTokens(b, t, f, x)), File_a>>] :
        m \in PathModels, b \in PathBatches, t \in PathTps,
        f \in BOOLEAN, x \in BOOLEAN}

\* the path without a MODEL_ segment
PlainPaths ==
    {[model |-> None, batch |-> None, tp |-> None, tp_first |-> FALSE,
      extra |-> FALSE, path |-> <<Part_exp, Part_plain, File_a>>]}

InitPath ==
    /\ UnitMain
    /\ comm_order = COMM_KEYS_DECL
    /\ op = "ready"
    /\ arg \in SegmentPaths \cup PlainPaths
    /\ ret = <<>>

CallParseModel ==
    /\ op = "ready"
    /\ op' = "parse_model"
    /\ ret' = parse_model(arg.path)
    /\ UNCHANGED <<arg>>
    /\ UNCHANGED mainVars

CallParseBatchTp ==
    /\ op = "ready"
    /\ op' = "parse_batch_tp"
    /\ ret' = parse_batch_tp(arg.path)
    /\ UNCHANGED <<arg>>
    /\ UNCHANGED mainVars

NextPath == CallParseModel \/ CallParseBatchTp

SpecPath == InitPath /\ [][NextPath]_vars

\* C14: for a path with one segment MODEL_<m>,... the model is <m>, batch is
\* what follows BATCH_ in its sub-token and tp what follows TP_ in its
\* sub-token, in either order of the sub-tokens, and a marker that is absent
\* gives None.
C14_SegmentIsParsed ==
    /\ (op = "parse_model" /\ arg.model # None) => ret = arg.model
    /\ (op = "parse_batch_tp" /\ arg.model # None) => ret = <<arg.batch, arg.tp>>

\* the TP_ sub-token comes first, a sub-token that is no marker in between
C14_Witness ==
    /\ op = "parse_batch_tp"
    /\ arg.model = <<"m","y","_","m">>
    /\ arg.tp_first
    /\ arg.extra
    /\ ret = << <<"1","_","0">>, <<"2">> >>

----------------------------------------------------------------------------
(* Runs over the second catalogue                                          *)

HasPhaseX(e) == e.ph = S_X

\* the trace file without its events of another phase or of no phase
OnlyPhaseX(file) == [file EXCEPT !.doc.events = SelectSeq(@, HasPhaseX)]

\* C13: the aggregation state after the consumed trace files is the state the
\* same files give once every event whose phase is not "X" is taken out of
\* them: such an event adds to no total and no count, whatever its name.
C13_OnlyPhaseXCounts ==
    LoopIntact =>
        LET st == RunFiles([i \in 1..idx |-> OnlyPhaseX(files[i])], EmptyState)
        IN  /\ st.by_comm = totals_by_comm
            /\ st.by_model_comm = totals_by_model_comm
            /\ st.processed = processed_data

\* a file with a phase-"X" event and an event without a phase, whose name
\* holds all-reduce, was folded into the state
C13_Witness ==
    /\ pc = "done"
    /\ idx = 1
    /\ EventsOf(files[1]) = <<EvNoPhase, EvUnderscore>>
    /\ DOMAIN totals_by_comm = {K_all_gather_us}

NoModelSegment(path) == \A i \in 1..Len(path) : ~StartsWith(path[i], S_MODEL_)

UnknownKey == <<S_unknown_model, <<None, None>>>>

\* the grid written for unknown_model and category c holds the cell
InUnknownGrid(c, cell) ==
    \E i \in 1..Len(written) :
        /\ written[i].kind = "grid"
        /\ written[i].model = S_unknown_model
        /\ written[i].ctype = c
        /\ <<None, None>> \in DOMAIN written[i].cells
        /\ written[i].cells[<<None, None>>] = cell

\* the long-form table holds the record of unknown_model and category c
InUnknownLongForm(c, cell) ==
    \E i \in 1..Len(written) :
        /\ written[i].kind = "parquet"
        /\ \E r \in written[i].rows :
              /\ r.model = S_unknown_model
              /\ r.tp = None
              /\ r.batch = None
              /\ r.comm_type = c
              /\ <<r.total_us, r.count>> = cell

\* C15: a trace file whose path has no MODEL_ segment gets model, batch and
\* tp None, and at the end of the run the communication events of such files
\* are, with their whole total and count, in the grid of unknown_model and in
\* the long-form record of unknown_model.
C15_NoModelSegmentIsKept ==
    pc = "done" =>
        \A i \in 1..idx :
            NoModelSegment(files[i].path) =>
                /\ parse_model(files[i].path) = None
                /\ parse_batch_tp(files[i].path) = <<None, None>>
                /\ \A c \in CategoriesIn(idx) :
                      CountIn(EventsOf(files[i]), c) > 0 =>
                          LET cell == <<TotalOver(idx, UnknownKey, c),
                                        CountOver(idx, UnknownKey, c)>>
                          IN  InUnknownGrid(c, cell) /\ InUnknownLongForm(c, cell)

\* the (batch, tp) pairs accumulated for a model, under all its categories
ObservedFor(model) ==
    UNION {DOMAIN totals_by_model_comm[mk] :
             mk \in {k \in DOMAIN totals_by_model_comm : k[1] = model}}

\* C16: the rows of the grid written for a (model, category) pair are the
\* batch values accumulated for that model under any category, and its
\* columns are the tp values accumulated for that model under any category.
C16_AxesAreTheModelsValues ==
    \A i \in 1..Len(written) :
        written[i].kind = "grid" =>
            /\ Range(written[i].batches) = {bt[1] : bt \in ObservedFor(written[i].model)}
            /\ Range(written[i].tps) = {bt[2] : bt \in ObservedFor(written[i].model)}

S_zero_cell == <<"0",".","0","0","0","/","0">>

S_1_235_1 == <<"1",".","2","3","5","/","1">>

IsNumber(text) == text # <<>> /\ \A i \in 1..Len(text) : text[i] \in DigitSet

\* text is "<total>/<count>": the count of the cell, and its total in
\* microseconds with three decimal places, off by at most half a thousandth
ReadsAs(text, cell) ==
    LET parts == Split(text, "/")
    IN  /\ Len(parts) = 2
        /\ IsNumber(parts[2])
        /\ DigitsValue(parts[2], 0) = cell[2]
        /\ LET num == Split(parts[1], ".")
           IN  /\ Len(num) = 2
               /\ IsNumber(num[1])
               /\ IsNumber(num[2])
               /\ Len(num[2]) = 3
               /\ LET shown == (DigitsValue(num[1], 0) * 1000 + DigitsValue(num[2], 0))
                                   * PsPerThousandth
                  IN  /\ 2 * (shown - cell[1]) <= PsPerThousandth
                      /\ 2 * (cell[1] - shown) <= PsPerThousandth

\* C17: in every grid written, the text of a (batch, tp) on its axes without
\* an accumulated cell is "0.000/0", the text of every other one is
\* "<total>/<count>" with the total to three decimal places, and every value
\* on its axes was accumulated for the model of the grid.
C17_CellsAreRendered ==
    \A i \in 1..Len(written) :
        written[i].kind = "grid" =>
            LET g == written[i]
                grid == totals_by_model_comm[<<g.model, g.ctype>>]
            IN  /\ Len(g.rows) = Len(g.batches)
                /\ \A b \in 1..Len(g.batches) :
                      /\ Len(g.rows[b]) = Len(g.tps) + 1
                      /\ \A t \in 1..Len(g.tps) :
                            LET bt == <<g.batches[b], g.tps[t]>>
                                text == g.rows[b][t + 1]
                            IN  IF bt \in DOMAIN grid
                                THEN ReadsAs(text, grid[bt])
                                ELSE text = S_zero_cell
                /\ Range(g.batches) \subseteq {bt[1] : bt \in ObservedFor(g.model)}
                /\ Range(g.tps) \subseteq {bt[2] : bt \in ObservedFor(g.model)}

\* a grid of two batches and two tps with two accumulated cells
C17_Witness ==
    /\ pc = "done"
    /\ \E i \in 1..Len(written) :
          /\ written[i].kind = "grid"
          /\ written[i].model = <<"f","o","o">>
          /\ written[i].header = <<S_batch_tp, <<"1">>, <<"2">>>>
          /\ written[i].rows = << << <<"4">>, S_zero_cell, S_1_235_1 >>,
                                  << <<"1","0">>, S_1_235_1, S_zero_cell >> >>

\* the (model, tp, batch, category) keys of the accumulated grid cells
PopulatedKeys ==
    UNION { {<<mk[1], bt[2], bt[1], mk[2]>> : bt \in DOMAIN totals_by_model_comm[mk]} :
            mk \in DOMAIN totals_by_model_comm }

\* C19: the long-form table that is written has one record for each
\* accumulated grid cell and no other: the keys of its records are the keys
\* of the cells, no key comes twice, and no record has a count of zero.
C19_LongFormHasThePopulatedCells ==
    \A i \in 1..Len(written) :
        written[i].kind \in {"parquet", "csv"} =>
            LET rows == written[i].rows
                keys == {<<r.model, r.tp, r.batch, r.comm_type>> : r \in rows}
            IN  /\ keys = PopulatedKeys
                /\ Cardinality(rows) = Cardinality(keys)
                /\ \A r \in rows : r.count > 0

\* two models with a batch and a tp value each: two records where eight
\* combinations of the values exist
C19_Witness ==
    /\ pc = "done"
    /\ \E i \in 1..Len(written) :
          /\ written[i].kind = "parquet"
          /\ Cardinality(written[i].rows) = 2
          /\ {r.model : r \in written[i].rows} = {<<"f","o","o">>, S_unknown_model}
          /\ {r.batch : r \in written[i].rows} = {<<"4">>, None}

GridWrites == {i \in 1..Len(written) : written[i].kind = "grid"}

\* C20: a finished run has written a grid for each (model, category) pair of
\* the state, each to a file name of its own, so that no grid is written
\* over the grid of another pair.
C20_OneFilePerPair ==
    pc = "done" =>
        /\ {<<written[i].model, written[i].ctype>> : i \in GridWrites}
               = DOMAIN totals_by_model_comm
        /\ \A i, j \in GridWrites :
               i # j => written[i].out_path # written[j].out_path

----------------------------------------------------------------------------
(* Runs over the third catalogue                                           *)

\* every cell of both grids has a total and a count that are not below zero
CellsNonNegative ==
    /\ \A c \in DOMAIN totals_by_comm : \A bt \in DOMAIN totals_by_comm[c] :
          totals_by_comm[c][bt][1] >= 0 /\ totals_by_comm[c][bt][2] >= 0
    /\ \A mk \in DOMAIN totals_by_model_comm :
          \A bt \in DOMAIN totals_by_model_comm[mk] :
              totals_by_model_comm[mk][bt][1] >= 0 /\ totals_by_model_comm[mk][bt][2] >= 0

\* a step takes nothing from the total or the count of a cell
CellsGrow ==
    /\ \A c \in DOMAIN totals_by_comm : \A bt \in DOMAIN totals_by_comm[c] :
          /\ c \in DOMAIN totals_by_comm'
          /\ bt \in DOMAIN totals_by_comm'[c]
          /\ totals_by_comm'[c][bt][1] >= totals_by_comm[c][bt][1]
          /\ totals_by_comm'[c][bt][2] >= totals_by_comm[c][bt][2]
    /\ \A mk \in DOMAIN totals_by_model_comm :
          \A bt \in DOMAIN totals_by_model_comm[mk] :
              /\ mk \in DOMAIN totals_by_model_comm'
              /\ bt \in DOMAIN totals_by_model_comm'[mk]
              /\ totals_by_model_comm'[mk][bt][1] >= totals_by_model_comm[mk][bt][1]
              /\ totals_by_model_comm'[mk][bt][2] >= totals_by_model_comm[mk][bt][2]

\* C21: in every state of a run the total and the count of every cell are at
\* least zero, and no step of the run lowers the total or the count of a
\* cell, whatever durations the events of the trace files carry.
C21_CellsNeverShrink == []CellsNonNegative /\ [][CellsGrow]_vars

----------------------------------------------------------------------------
(* The two axis orders                                                     *)

IsString(val) == val # None

\* C22: the order sort_key gives the string values of an axis is an order
\* ensure_sorted_numeric gives the same values.
C22_SameOrderInPlots ==
    op = "sorted" => SelectSeq(ret, IsString) \in ensure_sorted_numeric(arg)

----------------------------------------------------------------------------
(* The reader on a document of neither shape                               *)

\* C23: for a document that parses and is an object without "traceEvents",
\* iter_trace_events raises an error and yields nothing.
C23_OtherShapeIsAnError ==
    (op = "iter_trace_events" /\ arg.kind = "object" /\ ~arg.has_traceEvents)
        => ~ret.ok

----------------------------------------------------------------------------
(* The label "receive"                                                     *)

\* the hint is "receive", or the name holds "receive" and neither the name
\* nor the hint gives a known label
IsReceive(event) ==
    \/ Lower(event.hlo_category) = H_receive
    \/ /\ Contains(Lower(event.name), H_receive)
       /\ LabelsIn(event) = {}
       /\ Lower(event.hlo_category) \notin COMM_KEYS

\* C24: an event whose hint is "receive", or whose name contains "receive"
\* and no other known label, is a communication event of category "receive".
C24_ReceiveIsAKnownLabel ==
    /\ (op = "is_comm_event" /\ IsReceive(arg)) => ret = TRUE
    /\ (op = "comm_type" /\ IsReceive(arg)) => ret = H_receive

----------------------------------------------------------------------------
(* The classifier and the categories of a run                              *)

\* main() and the calls of the classifier side by side
InitCategories == Init \/ InitClassify

NextCategories == Next \/ NextClassify

SpecCategories == InitCategories /\ [][NextCategories]_vars

KnownLabel(ctype) == ctype \in COMM_KEYS /\ ctype # S_unknown

\* C28: is_comm_event is true of an event exactly when comm_type gives it a
\* known label, not "unknown"; and none of the grids and none of the
\* long-form records of a run is of the category "unknown".
C28_CommEventsHaveAKnownType ==
    /\ op = "is_comm_event" => (ret <=> KnownLabel(comm_type(arg, comm_order)))
    /\ op = "comm_type" =>
          /\ ret \in COMM_KEYS \cup {S_unknown}
          /\ KnownLabel(ret) <=> is_comm_event(arg)
    /\ \A c \in DOMAIN totals_by_comm : KnownLabel(c)
    /\ \A i \in 1..Len(written) :
          IF written[i].kind = "grid" THEN KnownLabel(written[i].ctype)
          ELSE \A r \in written[i].rows : KnownLabel(r.comm_type)

\* the name holds no label and the hint is one
C28_Witness ==
    /\ op = "is_comm_event"
    /\ arg.name = N_custom_op
    /\ arg.hlo_category = K_recv
    /\ ret = TRUE

----------------------------------------------------------------------------
(* The order of a run                                                      *)

\* the loop goes on to the next trace file
NextFile == pc = "loop" /\ idx < Len(files) /\ idx' = idx + 1

\* a run that is not held up before the end of the loop: the interpreter
\* enters the loop and goes on from one trace file to the next
SpecFair == Init /\ [][Next]_vars /\ WF_vars(Discover) /\ WF_idx(NextFile)

\* p < q on the parts of two paths
RECURSIVE PartsLess(_, _)
PartsLess(p, q) ==
    IF q = <<>> THEN FALSE
    ELSE IF p = <<>> THEN TRUE
    ELSE IF p[1] = q[1] THEN PartsLess(Tail(p), Tail(q))
    ELSE StrLess(p[1], q[1])

\* the trace files are taken in the order of their paths
InPathOrder ==
    \A i \in 1..(Len(files) - 1) : PartsLess(files[i].path, files[i + 1].path)

\* a step goes on to the next trace file or stays at the current one, and the
\* list of trace files is the discovered one throughout
OneFileAtATime ==
    /\ files' = files
    /\ idx' = idx \/ (pc = "loop" /\ idx' = idx + 1)

\* no artifact is written while a trace file is still to be processed
WritesAfterTheLoop == written # <<>> => (idx = Len(files) /\ pc \in {"grids", "done"})

\* every trace file has been processed to completion
AllProcessed == idx = Len(files) /\ pc \notin {"start", "raised"}

\* C25: the discovered trace files are processed one at a time in the order
\* of their paths, each of them once, every one of them is processed in the
\* end, and nothing is written before the last of them has been processed.
C25_EveryFileOnceThenOutputs ==
    /\ []InPathOrder
    /\ [][OneFileAtATime]_vars
    /\ []WritesAfterTheLoop
    /\ <>AllProcessed

----------------------------------------------------------------------------
(* What the steps of a run leave alone                                     *)

\* the step processes, to its end, a trace file without a phase-"X"
\* communication event
PassesOverFile ==
    /\ pc = "loop"
    /\ pc' = "loop"
    /\ idx' = idx + 1
    /\ iter_trace_events(files[idx'].doc).ok
    /\ \A i \in 1..Len(EventsOf(files[idx'])) : ~IsCommX(EventsOf(files[idx'])[i])

\* C26: processing a trace file without a phase-"X" communication event
\* changes no cell of either grid, adds no long-form record and adds no
\* batch or tp value to the axes.
C26_FileWithoutCommEventsChangesNothing ==
    [][PassesOverFile =>
          UNCHANGED <<totals_by_comm, totals_by_model_comm, model_comm_order,
                      processed_data, batches, tps, written>>]_vars

\* the first file, of batch 4 and tp 2, holds events and none that counts
C26_Witness ==
    /\ idx = 1
    /\ pc = "loop"
    /\ FileOutcome(files[1]) = "continue"
    /\ EventsOf(files[1]) = <<EvCustom, EvBegin>>
    /\ parse_batch_tp(files[1].path) = << <<"4">>, <<"2">> >>
    /\ batches = {}
    /\ tps = {}
    /\ DOMAIN totals_by_comm = {}

\* C27: while the grids and the long-form tables are written, no cell of the
\* aggregation state is created, removed or modified; a (batch, tp) of the
\* axes that has no cell is read without a cell being made for it.
C27_RenderingReadsOnly ==
    [][pc = "grids" =>
          UNCHANGED <<totals_by_comm, totals_by_model_comm, model_comm_order,
                      processed_data, batches, tps>>]_vars

\* a grid with "0.000/0" in it was written and the state still has the two
\* cells it had
C27_Witness ==
    /\ pc = "done"
    /\ \E i \in 1..Len(written) :
          /\ written[i].kind = "grid"
          /\ Len(written[i].batches) = 2
          /\ Len(written[i].tps) = 2
          /\ written[i].rows[1][2] = S_zero_cell
          /\ Cardinality(DOMAIN totals_by_model_comm[<<written[i].model,
                                                       written[i].ctype>>]) = 2

----------------------------------------------------------------------------
(* The aggregation key of a path with one or two MODEL_ segments           *)

SegmentModels == {<<"f","o","o">>, <<"b","a","r">>}

SegmentBatches == {None, <<"4">>, <<"8">>}

\* what a segment MODEL_<m>,BATCH_<b>,TP_<t> is built from
Segments ==
    {[model |-> m, batch |-> b, tp |-> t] :
        m \in SegmentModels, b \in SegmentBatches, t \in PathTps}

SegmentText(seg) ==
    JoinAfter(S_MODEL_ \o seg.model, SubTokens(seg.batch, seg.tp, FALSE, FALSE))

\* the paths exp/<segment>/a.trace.json.gz and exp/<segment>/<segment>/a.trace.json.gz
NestedPaths ==
    {[segments |-> segs,
      path |-> <<Part_exp>> \o [i \in 1..Len(segs) |-> SegmentText(segs[i])]
                   \o <<File_a>>] :
        segs \in [1..1 -> Segments] \cup [1..2 -> Segments]}

InitSegments ==
    /\ UnitMain
    /\ comm_order = COMM_KEYS_DECL
    /\ op = "ready"
    /\ arg \in NestedPaths
    /\ ret = <<>>

\* lines 132-133: batch, tp = parse_batch_tp(trace_path); model = parse_model(trace_path)
CallFileKey ==
    /\ op = "ready"
    /\ op' = "file_key"
    /\ ret' = <<parse_model(arg.path), parse_batch_tp(arg.path)>>
    /\ UNCHANGED <<arg>>
    /\ UNCHANGED mainVars

NextSegments == CallFileKey

SpecSegments == InitSegments /\ [][NextSegments]_vars

\* C29: the model, the batch and the tp of the key of a path are those of
\* one of its MODEL_ segments, not the model of one segment with the batch
\* or the tp of another.
C29_KeyComesFromOneSegment ==
    op = "file_key" =>
        \E i \in 1..Len(arg.segments) :
            ret = <<arg.segments[i].model,
                    <<arg.segments[i].batch, arg.segments[i].tp>>>>

----------------------------------------------------------------------------
(* run_batch_measurements and the summary of main() in                     *)
(* batch_measure_ttft_tpot.py.  arg is the call: the "models" of the       *)
(* config and, for each configuration in turn, what the environment does;  *)
(* ret is the state of the call: the list `results`, the number of         *)
(* configurations gone through, and how far the call has come.             *)

MaxConfigs == 2

ModelNames == {"org/model-a", "model_b"}

\* the values of "tp_sizes" in a model of the config
TpSizeLists == {<<>>, <<2>>, <<1, 2>>}

\* model_config.get('tp_sizes', [1])
tp_sizes_of(model_config) ==
    IF "tp_sizes" \in DOMAIN model_config THEN model_config.tp_sizes ELSE <<1>>

\* the (model, tp_size) pairs in the order the two loops visit them
RECURSIVE Configurations(_)
Configurations(models) ==
    IF models = <<>> THEN <<>>
    ELSE [i \in 1..Len(tp_sizes_of(Head(models))) |->
             [model |-> Head(models).name, tp_size |-> tp_sizes_of(Head(models))[i]]]
         \o Configurations(Tail(models))

\* a model of the config, with or without the key "tp_sizes"
ModelConfigs == [name : ModelNames] \cup [name : ModelNames, tp_sizes : TpSizeLists]

\* the lists of at most two models with at most n configurations
ModelLists(n) ==
    {ms \in UNION {[1..k -> ModelConfigs] : k \in 0..2} : Len(Configurations(ms)) <= n}

\* what happens in the try block of a configuration: LLM() raises, or
\* measure_ttft_tpot raises, or the result file cannot be written, or all
\* goes well; and whether the error file can be written in the except block
TryOutcomes == {"ok", "load_fails", "measure_fails", "save_fails"}

Environments ==
    {[try |-> "ok", error_saved |-> TRUE]}
    \cup [try : TryOutcomes \ {"ok"}, error_saved : BOOLEAN]

BatchCalls ==
    UNION { {[models |-> ms, env |-> e] :
                e \in [1..Len(Configurations(ms)) -> Environments]} :
            ms \in ModelLists(MaxConfigs) }

InitBatch ==
    /\ UnitMain
    /\ comm_order = COMM_KEYS_DECL
    /\ op = "batch"
    /\ arg \in BatchCalls
    /\ ret = [results |-> <<>>, done |-> 0, at |-> "loop",
              summary |-> [total |-> 0, successful |-> 0, failed |-> 0]]

SuccessRecord(c) == [model |-> c.model, tp_size |-> c.tp_size, status |-> "SUCCESS"]

FailedRecord(c) == [model |-> c.model, tp_size |-> c.tp_size, status |-> "FAILED"]

\* the records the body of the inner loop appends for one configuration:
\* the result is appended before its file is written, so an exception of the
\* write reaches the except block after the append
RecordsOfTry(c, env) ==
    IF env.try = "ok" THEN <<SuccessRecord(c)>>
    ELSE IF env.try = "save_fails" THEN <<SuccessRecord(c), FailedRecord(c)>>
    ELSE <<FailedRecord(c)>>

\* the body with the append after the files are written
RecordsOfTry_once(c, env) ==
    IF env.try = "ok" THEN <<SuccessRecord(c)>> ELSE <<FailedRecord(c)>>

\* lines 117-161: one configuration, the try block and the except block
RunConfiguration ==
    /\ op = "batch"
    /\ ret.at = "loop"
    /\ ret.done < Len(Configurations(arg.models))
    /\ LET c == Configurations(arg.models)[ret.done + 1]
           env == arg.env[ret.done + 1]
       IN  ret' = [ret EXCEPT !.results = @ \o RecordsOfTry(c, env),
                              !.done = @ + 1,
                              !.at = IF env.try # "ok" /\ ~env.error_saved
                                     THEN "raised" ELSE "loop"]
    /\ UNCHANGED <<op, arg>>
    /\ UNCHANGED mainVars

\* line 163: return results
ReturnResults ==
    /\ op = "batch"
    /\ ret.at = "loop"
    /\ ret.done = Len(Configurations(arg.models))
    /\ ret' = [ret EXCEPT !.at = "returned"]
    /\ UNCHANGED <<op, arg>>
    /\ UNCHANGED mainVars

CountStatus(results, status) ==
    Cardinality({i \in 1..Len(results) : results[i].status = status})

\* lines 257-266 of main(): the summary of the returned results
Summarise ==
    /\ op = "batch"
    /\ ret.at = "returned"
    /\ ret' = [ret EXCEPT !.at = "summarised",
                          !.summary = [total |-> Len(ret.results),
                                       successful |-> CountStatus(ret.results, "SUCCESS"),
                                       failed |-> CountStatus(ret.results, "FAILED")]]
    /\ UNCHANGED <<op, arg>>
    /\ UNCHANGED mainVars

NextBatch == RunConfiguration \/ ReturnResults \/ Summarise

SpecBatch == InitBatch /\ [][NextBatch]_vars

\* C30: no configuration keeps the following ones from being attempted; the
\* returned list has one record for each (model, tp_size) configuration, in
\* the order of the configurations, of status SUCCESS or FAILED; and the
\* total of the summary is its successful plus its failed.
C30_OneRecordPerConfiguration ==
    op = "batch" =>
        /\ ret.at # "raised"
        /\ ret.at \in {"returned", "summarised"} =>
              /\ Len(ret.results) = Len(Configurations(arg.models))
              /\ \A i \in 1..Len(ret.results) :
                    /\ ret.results[i].model = Configurations(arg.models)[i].model
                    /\ ret.results[i].tp_size = Configurations(arg.models)[i].tp_size
                    /\ ret.results[i].status \in {"SUCCESS", "FAILED"}
        /\ ret.at = "summarised" =>
              ret.summary.total = ret.summary.successful + ret.summary.failed

====
